---- MODULE Spec2Model ----
(***************************************************************************)
(* Model of backend/ai_generator.py: class AIGenerator.                    *)
(*                                                                         *)
(* One AIGenerator instance (self) is shared by the caller threads.  The   *)
(* instance owns one dict, self.base_params.  generate_response stores a   *)
(* REFERENCE to that dict under api_params["config"] (line 74) and then    *)
(* writes "system_instruction" (line 79) and "tools" (line 91) through     *)
(* that reference; _handle_tool_execution stores the same reference under  *)
(* final_params["config"] (line 159).  The model therefore keeps the dict  *)
(* in the shared variable base_params and what the backend receives is the *)
(* content of that dict at the moment generate_content is called.          *)
(***************************************************************************)
EXTENDS Integers, Sequences, FiniteSets, TLC

VARIABLES
    base_params,     \* self.base_params, the instance's dict
    pc,              \* per thread: position inside generate_response
    args,            \* per thread: the arguments of the running call
    api_params,      \* per thread: local api_params of generate_response
    response,        \* per thread: response of the initial request
    idx,             \* per thread: position of the for loop of line 123
    contents,        \* per thread: local contents of _handle_tool_execution
    tool_results,    \* per thread: local tool_results
    final_response,  \* per thread: response of the follow-up request
    requests,        \* per thread: what the backend received from this call
    executed,        \* per thread: what the tool manager received from this call
    outcome          \* per thread: how the call ended (return value or exception)

vars == <<base_params, pc, args, api_params, response, idx, contents,
          tool_results, final_response, requests, executed, outcome>>

-----------------------------------------------------------------------------
(* Bounds and input sets *)

MaxParts == 2                  \* longest list of parts in an initial response

Threads == {"A", "B"}          \* caller threads of SpecConc
MainThread == "A"              \* the only caller of Spec

\* Python values.  None is an Optional without value; str and list values are
\* sequences (a str is the sequence of its pieces).
None == [isNone |-> TRUE]
Some(v) == [isNone |-> FALSE, value |-> v]
\* Python truthiness of an Optional[str] / Optional[List]: None, "" and [] are falsy.
Truthy(o) == (~o.isNone) /\ (o.value # <<>>)

Queries == {"q1", "q2"}
Histories == {None, Some(<<>>), Some(<<"h1">>)}
ToolLists == {None, Some(<<>>), Some(<<"t2", "t1">>)}
ToolManagers == {"None", "tool_manager"}

\* parts of a response: a text part, or a part with a function_call
NoArgs == <<>>
TextPart == [function_call |-> [isNone |-> TRUE]]
CallPart(n, a) == [function_call |-> [isNone |-> FALSE, name |-> n, args |-> a]]
Parts == {TextPart,
          CallPart("search_course_content", [query |-> "x"]),
          CallPart("search_course_content", NoArgs),
          CallPart("get_course_outline", NoArgs)}
FinishReasons == {"STOP", "MAX_TOKENS"}
Texts == {"a", "b"}

SeqsUpTo(S, n) == UNION {[1..k -> S] : k \in 0..n}
Responses ==
    [finish_reason : FinishReasons, parts : SeqsUpTo(Parts, MaxParts), text : Texts]
\* responses the backend gives to the follow-up request
FollowUpResponses ==
    [finish_reason : FinishReasons,
     parts : {<<TextPart>>, <<CallPart("search_course_content", NoArgs)>>},
     text : Texts]
ToolOutputs == {"r1", "r2"}

NoResponse == [finish_reason |-> "", parts |-> <<>>, text |-> ""]
NoArgsRecord == [query |-> "", conversation_history |-> None, tools |-> None,
                 tool_manager |-> "None"]
NoParams == [model |-> "", contents |-> <<>>]
NoOutcome == [kind |-> "running", value |-> ""]

-----------------------------------------------------------------------------
(* Program constants and pure helpers *)

Temperature == 0
MaxOutputTokens == 800
ModelName == "model"

\* class attribute SYSTEM_PROMPT: a non-empty str
SYSTEM_PROMPT == <<"SYSTEM_PROMPT">>
HistoryHeader == <<"\n\nPrevious conversation:\n">>

\* dict store d[k] = v
DictSet(d, k, v) == [x \in (DOMAIN d) \cup {k} |-> IF x = k THEN v ELSE d[x]]

\* __init__: self.base_params
InitBaseParams == [temperature |-> Temperature, max_output_tokens |-> MaxOutputTokens]

\* SystemContent with "is not None" in place of the truth test of line 62
SystemContentIsNotNone(conversation_history) ==
    IF ~conversation_history.isNone
    THEN SYSTEM_PROMPT \o HistoryHeader \o conversation_history.value
    ELSE SYSTEM_PROMPT

\* lines 60-64: the f-string, or the prompt alone
SystemContent(conversation_history) ==
    IF Truthy(conversation_history)
    THEN SYSTEM_PROMPT \o HistoryHeader \o conversation_history.value
    ELSE SYSTEM_PROMPT

\* line 79: the system_instruction value
SystemInstruction(system_content) == [parts |-> <<[text |-> system_content]>>]

\* line 69: the user turn
UserTurn(query) == [role |-> "user", parts |-> <<[text |-> query]>>]

\* lines 85-90: one {"function_declarations": [tool]} per tool, in order
GeminiTools(tools) == [i \in 1..Len(tools) |-> [function_declarations |-> <<tools[i]>>]]

\* line 124
HasFunctionCall(part) == ~part.function_call.isNone

\* lines 127-131: the arguments execute_tool is called with
ToolArgs(function_call) ==
    IF "query" \notin DOMAIN function_call.args
       /\ function_call.name = "search_course_content"
    THEN DictSet(function_call.args, "query", "default query")
    ELSE function_call.args

\* lines 138-145
ToolResult(name, tool_result) ==
    [function_response |-> [name |-> name, response |-> [content |-> tool_result]]]

\* AppendResult with insert(0, ...) in place of append
InsertResultFirst(results, r) == <<r>> \o results

\* line 138: tool_results.append(...)
AppendResult(results, r) == Append(results, r)

\* TakesToolPath without the test of tool_manager
TakesToolPathOnStop(resp, tool_manager) ==
    resp.finish_reason = "STOP"

\* TakesToolPath that also asks for a function_call among the parts
TakesToolPathOnCalls(resp, tool_manager) ==
    /\ resp.finish_reason = "STOP"
    /\ tool_manager # "None"
    /\ \E i \in 1..Len(resp.parts) : HasFunctionCall(resp.parts[i])

\* line 97: the condition of the tool-execution path
TakesToolPath(resp, tool_manager) ==
    resp.finish_reason = "STOP" /\ tool_manager # "None"

\* FollowUpContents without the test of line 148
FollowUpContentsAlways(cs, results) ==
    Append(cs, [role |-> "user", parts |-> results])

\* lines 148-149: the tool results go in as one user turn, if there are any
FollowUpContents(cs, results) ==
    IF results # <<>> THEN Append(cs, [role |-> "user", parts |-> results]) ELSE cs

\* what generate_content receives: the model name, the contents, and the dict
\* api_params["config"] / final_params["config"] refers to: self.base_params
Request(model, cs, config) == [model |-> model, contents |-> cs, config |-> config]

-----------------------------------------------------------------------------
(* State *)

Init ==
    /\ base_params = InitBaseParams
    /\ pc = [t \in Threads |-> "idle"]
    /\ args = [t \in Threads |-> NoArgsRecord]
    /\ api_params = [t \in Threads |-> NoParams]
    /\ response = [t \in Threads |-> NoResponse]
    /\ idx = [t \in Threads |-> 0]
    /\ contents = [t \in Threads |-> <<>>]
    /\ tool_results = [t \in Threads |-> <<>>]
    /\ final_response = [t \in Threads |-> NoResponse]
    /\ requests = [t \in Threads |-> <<>>]
    /\ executed = [t \in Threads |-> <<>>]
    /\ outcome = [t \in Threads |-> NoOutcome]

\* generate_response, lines 59-79: system_content, api_params, and the store
\* of system_instruction into the dict api_params["config"] refers to.
\* self.base_params is never empty, so line 73 always takes the branch, and
\* SYSTEM_PROMPT is not empty, so line 77 does too.
generate_response(t, query, conversation_history, tools, tool_manager) ==
    /\ pc[t] = "idle"
    /\ args' = [args EXCEPT ![t] =
                  [query |-> query, conversation_history |-> conversation_history,
                   tools |-> tools, tool_manager |-> tool_manager]]
    /\ api_params' = [api_params EXCEPT ![t] =
                  [model |-> ModelName, contents |-> <<UserTurn(query)>>]]
    /\ base_params' = DictSet(base_params, "system_instruction",
                              SystemInstruction(SystemContent(conversation_history)))
    /\ pc' = [pc EXCEPT ![t] = "add_tools"]
    /\ UNCHANGED <<response, idx, contents, tool_results, final_response,
                   requests, executed, outcome>>

\* generate_response, lines 81-91
add_tools(t) ==
    /\ pc[t] = "add_tools"
    /\ base_params' = IF Truthy(args[t].tools)
                      THEN DictSet(base_params, "tools", GeminiTools(args[t].tools.value))
                      ELSE base_params
    /\ pc' = [pc EXCEPT ![t] = "generate_content"]
    /\ UNCHANGED <<args, api_params, response, idx, contents, tool_results,
                   final_response, requests, executed, outcome>>

\* generate_response, lines 94-101, and when the tool path is taken lines
\* 116-122 of _handle_tool_execution (local statements only)
initial_response(t, resp) ==
    /\ pc[t] = "generate_content"
    /\ requests' = [requests EXCEPT ![t] =
          Append(@, Request(api_params[t].model, api_params[t].contents, base_params))]
    /\ response' = [response EXCEPT ![t] = resp]
    /\ IF TakesToolPath(resp, args[t].tool_manager)
       THEN /\ contents' = [contents EXCEPT ![t] =
                   Append(api_params[t].contents, [role |-> "model", parts |-> resp.parts])]
            /\ idx' = [idx EXCEPT ![t] = 1]
            /\ pc' = [pc EXCEPT ![t] = "tool_loop"]
            /\ UNCHANGED outcome
       ELSE /\ outcome' = [outcome EXCEPT ![t] = [kind |-> "return", value |-> resp.text]]
            /\ pc' = [pc EXCEPT ![t] = "done"]
            /\ UNCHANGED <<contents, idx>>
    /\ UNCHANGED <<base_params, args, api_params, tool_results, final_response, executed>>

\* line 94 when generate_content raises: the exception leaves generate_response
initial_request_fails(t) ==
    /\ pc[t] = "generate_content"
    /\ requests' = [requests EXCEPT ![t] =
          Append(@, Request(api_params[t].model, api_params[t].contents, base_params))]
    /\ outcome' = [outcome EXCEPT ![t] = [kind |-> "raise", value |-> "BackendError"]]
    /\ pc' = [pc EXCEPT ![t] = "done"]
    /\ UNCHANGED <<base_params, args, api_params, response, idx, contents,
                   tool_results, final_response, executed>>

\* lines 123-124: a part without function_call is passed over
skip_part(t) ==
    /\ pc[t] = "tool_loop"
    /\ idx[t] <= Len(response[t].parts)
    /\ ~HasFunctionCall(response[t].parts[idx[t]])
    /\ idx' = [idx EXCEPT ![t] = @ + 1]
    /\ UNCHANGED <<base_params, pc, args, api_params, response, contents,
                   tool_results, final_response, requests, executed, outcome>>

\* lines 123-145: one tool call, execute_tool returns tool_result
execute_tool(t, tool_result) ==
    /\ pc[t] = "tool_loop"
    /\ idx[t] <= Len(response[t].parts)
    /\ HasFunctionCall(response[t].parts[idx[t]])
    /\ LET function_call == response[t].parts[idx[t]].function_call
       IN /\ executed' = [executed EXCEPT ![t] =
                 Append(@, [name |-> function_call.name, args |-> ToolArgs(function_call),
                            part |-> idx[t], result |-> tool_result])]
          /\ tool_results' = [tool_results EXCEPT ![t] =
                 AppendResult(@, ToolResult(function_call.name, tool_result))]
    /\ idx' = [idx EXCEPT ![t] = @ + 1]
    /\ UNCHANGED <<base_params, pc, args, api_params, response, contents,
                   final_response, requests, outcome>>

\* ToolRaises with the exception caught and turned into a result of the tool
ToolRaisesCaught(t) ==
    /\ tool_results' = [tool_results EXCEPT ![t] =
           AppendResult(@, ToolResult(response[t].parts[idx[t]].function_call.name, "error"))]
    /\ idx' = [idx EXCEPT ![t] = @ + 1]
    /\ UNCHANGED <<outcome, pc>>

\* lines 133-136 when execute_tool raises: nothing catches it
ToolRaises(t) ==
    /\ outcome' = [outcome EXCEPT ![t] = [kind |-> "raise", value |-> "ToolError"]]
    /\ pc' = [pc EXCEPT ![t] = "done"]
    /\ UNCHANGED <<idx, tool_results>>

execute_tool_raises(t) ==
    /\ pc[t] = "tool_loop"
    /\ idx[t] <= Len(response[t].parts)
    /\ HasFunctionCall(response[t].parts[idx[t]])
    /\ LET function_call == response[t].parts[idx[t]].function_call
       IN executed' = [executed EXCEPT ![t] =
                 Append(@, [name |-> function_call.name, args |-> ToolArgs(function_call),
                            part |-> idx[t], result |-> "raised"])]
    /\ ToolRaises(t)
    /\ UNCHANGED <<base_params, args, api_params, response, contents,
                   final_response, requests>>

\* lines 147-168 after the loop: final_params["config"] is self.base_params
\* (line 159); line 164 stores the dict's own system_instruction into itself.
follow_up(t, resp) ==
    /\ pc[t] = "tool_loop"
    /\ idx[t] > Len(response[t].parts)
    /\ contents' = [contents EXCEPT ![t] = FollowUpContents(@, tool_results[t])]
    /\ requests' = [requests EXCEPT ![t] =
          Append(@, Request(ModelName, contents'[t], base_params))]
    /\ final_response' = [final_response EXCEPT ![t] = resp]
    /\ outcome' = [outcome EXCEPT ![t] = [kind |-> "return", value |-> resp.text]]
    /\ pc' = [pc EXCEPT ![t] = "done"]
    /\ UNCHANGED <<base_params, args, api_params, response, idx, tool_results, executed>>

\* line 167 when generate_content raises
follow_up_fails(t) ==
    /\ pc[t] = "tool_loop"
    /\ idx[t] > Len(response[t].parts)
    /\ contents' = [contents EXCEPT ![t] = FollowUpContents(@, tool_results[t])]
    /\ requests' = [requests EXCEPT ![t] =
          Append(@, Request(ModelName, contents'[t], base_params))]
    /\ outcome' = [outcome EXCEPT ![t] = [kind |-> "raise", value |-> "BackendError"]]
    /\ pc' = [pc EXCEPT ![t] = "done"]
    /\ UNCHANGED <<base_params, args, api_params, response, idx, tool_results,
                   final_response, executed>>

\* the caller has the result; the frame of the call is gone
call_ends(t) ==
    /\ pc[t] = "done"
    /\ pc' = [pc EXCEPT ![t] = "idle"]
    /\ args' = [args EXCEPT ![t] = NoArgsRecord]
    /\ api_params' = [api_params EXCEPT ![t] = NoParams]
    /\ response' = [response EXCEPT ![t] = NoResponse]
    /\ idx' = [idx EXCEPT ![t] = 0]
    /\ contents' = [contents EXCEPT ![t] = <<>>]
    /\ tool_results' = [tool_results EXCEPT ![t] = <<>>]
    /\ final_response' = [final_response EXCEPT ![t] = NoResponse]
    /\ requests' = [requests EXCEPT ![t] = <<>>]
    /\ executed' = [executed EXCEPT ![t] = <<>>]
    /\ outcome' = [outcome EXCEPT ![t] = NoOutcome]
    /\ UNCHANGED base_params

\* One caller: the calls on the instance follow one another.
Next ==
    \/ \E q \in Queries, h \in Histories, ts \in ToolLists, tm \in ToolManagers :
          generate_response(MainThread, q, h, ts, tm)
    \/ add_tools(MainThread)
    \/ \E resp \in Responses : initial_response(MainThread, resp)
    \/ initial_request_fails(MainThread)
    \/ skip_part(MainThread)
    \/ \E r \in ToolOutputs : execute_tool(MainThread, r)
    \/ execute_tool_raises(MainThread)
    \/ \E resp \in FollowUpResponses : follow_up(MainThread, resp)
    \/ follow_up_fails(MainThread)
    \/ call_ends(MainThread)

Spec == Init /\ [][Next]_vars

\* Two callers share the instance; their calls interleave between statements.
ConcHistories == {None, Some(<<"h1">>)}
ConcToolLists == {None, Some(<<"t1">>)}
ConcResponses ==
    [finish_reason : FinishReasons,
     parts : {<<>>, <<TextPart, CallPart("search_course_content", [query |-> "x"])>>},
     text : {"a"}]
ConcFollowUpResponses ==
    [finish_reason : {"STOP"}, parts : {<<TextPart>>}, text : {"b"}]

NextConc ==
    \E t \in Threads :
        \/ \E h \in ConcHistories, ts \in ConcToolLists, tm \in ToolManagers :
              generate_response(t, "q1", h, ts, tm)
        \/ add_tools(t)
        \/ \E resp \in ConcResponses : initial_response(t, resp)
        \/ initial_request_fails(t)
        \/ skip_part(t)
        \/ execute_tool(t, "r1")
        \/ execute_tool_raises(t)
        \/ \E resp \in ConcFollowUpResponses : follow_up(t, resp)
        \/ follow_up_fails(t)
        \/ call_ends(t)

SpecConc == Init /\ [][NextConc]_vars

-----------------------------------------------------------------------------
(* Vocabulary of the properties *)

InitialRequest(t) == requests[t][1]
FollowUpRequest(t) == requests[t][2]
HasInitialRequest(t) == Len(requests[t]) >= 1
HasFollowUpRequest(t) == Len(requests[t]) >= 2
HasInitialResponse(t) == response[t] # NoResponse
HasFollowUpResponse(t) == final_response[t] # NoResponse

CarriesTools(req) == "tools" \in DOMAIN req.config
SystemText(req) == req.config.system_instruction.parts[1].text

\* the tool declarations of the call's own tools argument are what req carries
CarriesOwnTools(t, req) ==
    IF Truthy(args[t].tools)
    THEN CarriesTools(req) /\ req.config.tools = GeminiTools(args[t].tools.value)
    ELSE ~CarriesTools(req)

\* positions of the tool-call parts of a list of parts, in order
CallPositions(parts) ==
    LET IsCall(i) == ~parts[i].function_call.isNone
    IN SelectSeq([i \in 1..Len(parts) |-> i], IsCall)

\* the initial response signals a normal stop and a tool manager was supplied
OnToolPath(t) ==
    /\ HasInitialResponse(t)
    /\ response[t].finish_reason = "STOP"
    /\ args[t].tool_manager # "None"

SomeToolRaised(t) == \E i \in 1..Len(executed[t]) : executed[t][i].result = "raised"

IsToolResultTurn(turn) ==
    /\ turn.parts # <<>>
    /\ \A i \in 1..Len(turn.parts) : "function_response" \in DOMAIN turn.parts[i]

ToolResultTurns(cs) == {i \in 1..Len(cs) : IsToolResultTurn(cs[i])}

IsPrefix(p, s) == Len(p) <= Len(s) /\ SubSeq(s, 1, Len(p)) = p
IsSuffix(p, s) == Len(p) <= Len(s) /\ SubSeq(s, Len(s) - Len(p) + 1, Len(s)) = p

-----------------------------------------------------------------------------
(* Properties *)

\* C1: on the tool-execution path the follow-up request sent to the backend
\* carries no tool declarations, also when the call was given a non-empty
\* tools list.
C1_FollowUpWithoutTools ==
    \A t \in Threads : HasFollowUpRequest(t) => ~CarriesTools(FollowUpRequest(t))

\* C2: no cross-call state is mutated: the initial request of every call
\* carries exactly that call's own tool declarations (none when tools is
\* absent or empty), whatever earlier calls supplied, and after each call the
\* instance's base config holds only temperature=0 and max_output_tokens=800.
C2_NoCrossCallState ==
    \A t \in Threads :
        /\ HasInitialRequest(t) => CarriesOwnTools(t, InitialRequest(t))
        /\ pc[t] = "done" =>
              base_params = [temperature |-> 0, max_output_tokens |-> 800]

\* C3 as stated: on the tool-execution path a call whose initial response has
\* N >= 1 tool-call parts invokes the tool executor exactly N times, in the
\* order of the parts, and its follow-up conversation has exactly one
\* tool-result user turn holding the N results in that order.
C3_ExactlyNToolCalls ==
    \A t \in Threads :
        LET calls == CallPositions(response[t].parts)
            N == Len(calls)
        IN (pc[t] = "done" /\ OnToolPath(t) /\ N >= 1) =>
              /\ Len(executed[t]) = N
              /\ \A i \in 1..N : executed[t][i].part = calls[i]
              /\ HasFollowUpRequest(t)
              /\ LET cs == FollowUpRequest(t).contents
                 IN /\ ToolResultTurns(cs) = {Len(cs)}
                    /\ cs[Len(cs)].role = "user"
                    /\ Len(cs[Len(cs)].parts) = N
                    /\ \A i \in 1..N :
                          cs[Len(cs)].parts[i] =
                             ToolResult(response[t].parts[calls[i]].function_call.name,
                                        executed[t][i].result)

\* C3 as amended: the same, for the calls in which no tool invocation raises;
\* in every call the executor is invoked for the tool-call parts in their
\* order, one invocation per part.
C3_NToolCallsUnlessRaised ==
    \A t \in Threads :
        LET calls == CallPositions(response[t].parts)
            N == Len(calls)
        IN /\ Len(executed[t]) <= N
           /\ \A i \in 1..Len(executed[t]) :
                 /\ executed[t][i].part = calls[i]
                 /\ executed[t][i].name = response[t].parts[calls[i]].function_call.name
           /\ (pc[t] = "done" /\ OnToolPath(t) /\ N >= 1 /\ ~SomeToolRaised(t)) =>
                 /\ Len(executed[t]) = N
                 /\ HasFollowUpRequest(t)
                 /\ LET cs == FollowUpRequest(t).contents
                    IN /\ ToolResultTurns(cs) = {Len(cs)}
                       /\ cs[Len(cs)].role = "user"
                       /\ Len(cs[Len(cs)].parts) = N
                       /\ \A i \in 1..N :
                             cs[Len(cs)].parts[i] =
                                ToolResult(response[t].parts[calls[i]].function_call.name,
                                           executed[t][i].result)

\* C3 witness: a finished call with two tool calls of different names and
\* different results, and a follow-up request
C3_Witness ==
    \E t \in Threads :
        /\ pc[t] = "done" /\ HasFollowUpRequest(t)
        /\ Len(executed[t]) = 2
        /\ executed[t][1].name # executed[t][2].name
        /\ executed[t][1].result = "r2" /\ executed[t][2].result = "r1"

\* C4: if a tool invocation raises, the call ends in an error surfaced to the
\* caller, no follow-up request is issued (the call made one backend request)
\* and no later tool-call part of the response is executed.
C4_ToolFailureAborts ==
    \A t \in Threads :
        \A i \in 1..Len(executed[t]) :
            executed[t][i].result = "raised" =>
                /\ pc[t] = "done"
                /\ outcome[t].kind = "raise"
                /\ outcome[t].value = "ToolError"
                /\ Len(requests[t]) = 1
                /\ i = Len(executed[t])
                /\ tool_results[t] = [j \in 1..(i - 1) |->
                       ToolResult(executed[t][j].name, executed[t][j].result)]

\* C4 witness: the first of two tool-call parts raised
C4_Witness ==
    \E t \in Threads :
        /\ Len(CallPositions(response[t].parts)) = 2
        /\ Len(executed[t]) = 1
        /\ executed[t][1].result = "raised"

\* C5: a tool-call part that omits the required parameter query of
\* search_course_content never reaches the tool executor: the executor is not
\* invoked for it with a value put in place of the missing argument.
C5_NoPlaceholderArgument ==
    \A t \in Threads :
        \A i \in 1..Len(executed[t]) :
            LET function_call == response[t].parts[executed[t][i].part].function_call
            IN (function_call.name = "search_course_content"
                /\ "query" \notin DOMAIN function_call.args) =>
                   "query" \notin DOMAIN executed[t][i].args

\* the follow-up response is not inspected: nothing is executed for its parts,
\* no request follows it, and its text is what the call returns
FollowUpIsFinal(t) ==
    HasFollowUpResponse(t) =>
        /\ pc[t] = "done"
        /\ Len(requests[t]) = 2
        /\ Len(executed[t]) = Len(CallPositions(response[t].parts))
        /\ outcome[t] = [kind |-> "return", value |-> final_response[t].text]

\* C6 as stated: a call makes at most two backend requests; exactly one
\* follow-up request is made when the initial response signals a normal stop
\* and a tool executor is supplied; the follow-up response is never inspected
\* for tool calls nor followed by a further request or tool execution.
C6_OneFollowUp ==
    \A t \in Threads :
        /\ Len(requests[t]) <= 2
        /\ (pc[t] = "done" /\ OnToolPath(t)) => Len(requests[t]) = 2
        /\ FollowUpIsFinal(t)

\* C6 as amended: the follow-up request is made when the initial response
\* signals a normal stop, a tool executor is supplied and no tool invocation
\* raises; the rest as stated.
C6_OneFollowUpUnlessRaised ==
    \A t \in Threads :
        /\ Len(requests[t]) <= 2
        /\ (pc[t] = "done" /\ OnToolPath(t) /\ ~SomeToolRaised(t)) => Len(requests[t]) = 2
        /\ FollowUpIsFinal(t)

\* C6 witness: a finished call whose follow-up response signals a normal stop
\* and holds a tool-call part
C6_Witness ==
    \E t \in Threads :
        /\ pc[t] = "done"
        /\ HasFollowUpResponse(t)
        /\ final_response[t].finish_reason = "STOP"
        /\ CallPositions(final_response[t].parts) # <<>>
        /\ CallPositions(response[t].parts) = <<>>

\* C7: a call with no tools and no tool_manager issues exactly one backend
\* request, does not enter the tool-execution path, and returns the text of
\* that response unchanged, whatever its stop reason and parts.
C7_NoToolsOneRequest ==
    \A t \in Threads :
        (pc[t] # "idle" /\ ~Truthy(args[t].tools) /\ args[t].tool_manager = "None") =>
            /\ pc[t] # "tool_loop"
            /\ executed[t] = <<>>
            /\ ~HasFollowUpResponse(t)
            /\ pc[t] = "done" => Len(requests[t]) = 1
            /\ HasInitialResponse(t) =>
                  /\ pc[t] = "done"
                  /\ outcome[t] = [kind |-> "return", value |-> response[t].text]

\* C7 witness: such a call returned on a response that signals a normal stop
\* and holds a tool-call part
C7_Witness ==
    \E t \in Threads :
        /\ pc[t] = "done"
        /\ ~Truthy(args[t].tools) /\ args[t].tool_manager = "None"
        /\ response[t].finish_reason = "STOP"
        /\ CallPositions(response[t].parts) # <<>>
        /\ outcome[t].kind = "return"

\* C8: for any interleaving of two calls on the one instance, every backend
\* request carries the system content and the tool declarations of its own
\* call's arguments, never those of the other call.
C8_RequestsCarryOwnArguments ==
    \A t \in Threads :
        \A i \in 1..Len(requests[t]) :
            /\ SystemText(requests[t][i]) = SystemContent(args[t].conversation_history)
            /\ CarriesTools(requests[t][i]) =>
                  /\ Truthy(args[t].tools)
                  /\ requests[t][i].config.tools = GeminiTools(args[t].tools.value)
            /\ (i = 1 /\ Truthy(args[t].tools)) => CarriesTools(requests[t][i])

\* C9: the system content of a request is the static system prompt alone when
\* conversation_history is absent or empty, and the static system prompt
\* followed by the content of conversation_history when it is not empty; the
\* follow-up request carries the system content of the call's initial request.
C9_SystemContent ==
    \A t \in Threads :
        /\ \A i \in 1..Len(requests[t]) :
              LET h == args[t].conversation_history
                  text == SystemText(requests[t][i])
              IN /\ Len(requests[t][i].config.system_instruction.parts) = 1
                 /\ (h.isNone \/ h.value = <<>>) => text = SYSTEM_PROMPT
                 /\ (~h.isNone /\ h.value # <<>>) =>
                       /\ IsPrefix(SYSTEM_PROMPT, text)
                       /\ IsSuffix(h.value, text)
                       /\ Len(text) >= Len(SYSTEM_PROMPT) + Len(h.value)
        /\ HasFollowUpRequest(t) =>
              FollowUpRequest(t).config.system_instruction =
                 InitialRequest(t).config.system_instruction

\* C9 witness: a follow-up request of a call given a conversation history
C9_Witness ==
    \E t \in Threads :
        /\ HasFollowUpRequest(t)
        /\ Truthy(args[t].conversation_history)

\* C10: on a normal stop with a tool_manager and no tool-call part the executor
\* is not invoked, the follow-up request is issued with the two turns (user
\* turn, model turn with the initial parts) and no tool-result turn, and the
\* call returns the follow-up response's text; a follow-up conversation holds a
\* tool-result turn if and only if a tool-call part was executed.
C10_FollowUpWithoutToolCalls ==
    \A t \in Threads :
        /\ (OnToolPath(t) /\ CallPositions(response[t].parts) = <<>>) =>
              /\ executed[t] = <<>>
              /\ pc[t] = "done" =>
                    /\ HasFollowUpRequest(t)
                    /\ FollowUpRequest(t).contents =
                          <<[role |-> "user", parts |-> <<[text |-> args[t].query]>>],
                            [role |-> "model", parts |-> response[t].parts]>>
                    /\ outcome[t].kind = "return" =>
                          outcome[t].value = final_response[t].text
        /\ HasFollowUpRequest(t) =>
              (ToolResultTurns(FollowUpRequest(t).contents) # {} <=> executed[t] # <<>>)

\* C10 witness: such a call returned a text that differs from the initial one
C10_Witness ==
    \E t \in Threads :
        /\ pc[t] = "done"
        /\ OnToolPath(t)
        /\ response[t].parts # <<>>
        /\ CallPositions(response[t].parts) = <<>>
        /\ outcome[t].kind = "return"
        /\ outcome[t].value # response[t].text

====
